---------------------------- MODULE Spec2Model ----------------------------
(***************************************************************************)
(* TracePulse core (src/tracepulse/tracer.py).                             *)
(*                                                                         *)
(* These state machines share this module:                                 *)
(*   Spec            trace_request: one probe through its timed phases,    *)
(*                   the redirect recursion and the folding of timings.    *)
(*   SpecFramer      the receive loop of trace_request (lines 159-203) on  *)
(*                   a byte stream delivered in arbitrary reads.           *)
(*   SpecConcurrent  trace_concurrent: the thread pool, the futures and    *)
(*                   the collecting loop.                                  *)
(*   SpecAverage     average_timing on a list of records.                  *)
(*   SpecRequest     the request headers trace_request builds (lines       *)
(*                   105-111 and 146-154).                                 *)
(*   SpecConnections the sockets held by the pool threads of               *)
(*                   trace_concurrent while their probes follow redirects. *)
(*   SpecTrace       the trace command of cli.py for a count above 1: the  *)
(*                   rendering of each result and of their average.        *)
(* Each specification moves its own variables and leaves the others at     *)
(* their initial values.                                                   *)
(***************************************************************************)
EXTENDS Integers, Sequences, FiniteSets, TLC

VARIABLES
    \* ---- trace_request (Spec) ----
    frames,            \* the call chain of trace_request: frames[1] is the outermost call
    sp,                \* index of the running frame (the deepest live call)
    follow_redirects,  \* the follow_redirects argument
    clock,             \* time.perf_counter(), in ms, since the outermost call
    \* ---- receive loop (SpecFramer) ----
    stream,            \* the bytes the peer sends for this response
    delivered,         \* how many of them recv has handed to the program
    response_data,     \* the program's buffer
    fpc,               \* position in lines 159-203
    peer,              \* "open", "closed" (after the whole response), "cut" (closed
                       \* before it had sent everything) or "stalled" (a recv ran
                       \* into the socket's time limit with bytes still to come)
    late_read,         \* history: the loop called recv although the declared
                       \* content-length had already been received
    response_size,     \* timing.response_size
    \* ---- trace_concurrent (SpecConcurrent) ----
    urls,              \* the urls argument
    count_per_url,     \* the count_per_url argument
    max_workers,       \* the max_workers argument
    futures,           \* futures[i]: the future of the i-th submitted task
    results,           \* the results dict: key -> list of records
    yielded,           \* the futures as_completed has yielded so far
    cpc,               \* position of the calling thread in trace_concurrent
    \* ---- average_timing (SpecAverage) ----
    avg_results,       \* the results argument of average_timing
    avg,               \* the record average_timing returns
    apc,               \* position in average_timing
    \* ---- request building (SpecRequest) ----
    headers,           \* the caller's headers mapping, as the list of its items
                       \* (<<>> stands for None and for an empty dict)
    request_body,      \* the body argument, a list of characters (<<>> stands
                       \* for None and for "")
    raw_request,       \* the header lines of the request, in the order sent
    rpc,               \* position in the request building
    \* ---- sockets of the pool (SpecConnections) ----
    pending,           \* tasks no pool thread has taken yet
    chains,            \* chains[w]: the live trace_request calls of pool thread
                       \* w, outermost first (<<>> when it runs no task)
    \* ---- the trace command (SpecTrace) ----
    rendered           \* what each call of _render_timing did, in call order

probeVars == <<frames, sp, follow_redirects, clock>>
framerVars == <<stream, delivered, response_data, fpc, peer, late_read, response_size>>
concVars == <<urls, count_per_url, max_workers, futures, results, yielded, cpc>>
averVars == <<avg_results, avg, apc>>
reqVars == <<headers, request_body, raw_request, rpc>>
connVars == <<pending, chains>>
cliVars == <<rendered>>
vars == <<frames, sp, follow_redirects, clock,
          stream, delivered, response_data, fpc, peer, late_read, response_size,
          urls, count_per_url, max_workers, futures, results, yielded, cpc,
          avg_results, avg, apc,
          headers, request_body, raw_request, rpc,
          pending, chains, rendered>>

(***************************************************************************)
(* Bounds                                                                  *)
(***************************************************************************)
\* largest max_redirects argument explored
MaxRedirects == 2
\* perf_counter does not advance beyond this many ms during one outermost call
MaxClock == 2
\* largest declared content-length explored
MaxBody == 2
\* largest count_per_url argument explored
MaxCount == 2
\* largest max_workers argument explored
MaxWorkers == 2
\* longest list handed to average_timing
MaxResults == 3
\* bits in the significand of a float (a Python float has 53)
MantissaBits == 3
\* most items in the caller's headers mapping
MaxHeaders == 2
\* most characters in the body argument
MaxBodyChars == 2

(***************************************************************************)
(* URLs.  A URL string is modelled by what urlparse reads from it.         *)
(* port "" is an absent port, "bad" a port that is not a number: reading   *)
(* parsed.port then raises ValueError (tracer.py line 100).                *)
(***************************************************************************)
Url(s, h, p, q) == [scheme |-> s, host |-> h, port |-> p, path |-> q]

HttpA == Url("http", "a", "8080", "/")
HttpsB == Url("https", "b", "", "/")
BadPort == Url("http", "a", "bad", "/")

Targets == {HttpA, HttpsB, BadPort}

\* lines 97-103: urlparse(url), parsed.port
UrlParseRaises(url) == url.port = "bad"

\* line 98
IsHttps(url) == url.scheme = "https"

\* line 100: parsed.port or (443 if is_https else 80)
PortOf(url) ==
    IF url.port # "" THEN url.port
    ELSE IF IsHttps(url) THEN "443" ELSE "80"

(***************************************************************************)
(* Response headers that matter to the redirect branch.  A Location header *)
(* is missing, empty, relative (starts with "/") or an absolute URL.       *)
(***************************************************************************)
LocMissing == [kind |-> "missing", url |-> HttpA, path |-> ""]
LocEmpty == [kind |-> "empty", url |-> HttpA, path |-> ""]
LocRelative == [kind |-> "rel", url |-> HttpA, path |-> "/r"]
LocAbsolute(u) == [kind |-> "abs", url |-> u, path |-> ""]

\* Location headers the server of `url` answers with: none, an empty one, a
\* path on itself, the other host, or a URL whose port is not a number
Locations(url) ==
    {LocMissing, LocEmpty, LocRelative, LocAbsolute(BadPort),
     LocAbsolute(IF url.host = "a" THEN HttpsB ELSE HttpA)}

\* line 249
RedirectCodes == {301, 302, 303, 307, 308}

\* status codes the modelled servers answer with
StatusCodes == {200, 301}

\* the <<status code, Location header>> pairs the server of `url` answers
\* with: a 200 without Location or with one, and a redirect with each header
Answers(url) ==
    {<<200, LocMissing>>, <<200, LocRelative>>}
        \cup {<<st, loc>> : st \in StatusCodes \ {200}, loc \in Locations(url)}

\* line 250: timing.headers_received.get("location", "") is a non-empty string
HasLocation(loc) == loc.kind \in {"rel", "abs"}

\* lines 252-253: a Location starting with "/" is rebuilt from the scheme and host
ResolveLocation(loc, url) ==
    IF loc.kind = "rel" THEN Url(url.scheme, url.host, "", loc.path)
    ELSE loc.url

(***************************************************************************)
(* TimingBreakdown (lines 21-43)                                           *)
(***************************************************************************)
TimingBreakdown(url) ==
    [dns_ms |-> 0, tcp_connect_ms |-> 0, tls_handshake_ms |-> 0,
     server_processing_ms |-> 0, content_transfer_ms |-> 0, total_ms |-> 0,
     url |-> url, method |-> "GET", status_code |-> 0, response_size |-> 0,
     location |-> LocMissing, ip_address |-> "", tls_version |-> "",
     error |-> "None"]

\* total_ms computed without the transfer phase
PhaseSumNoTransfer(t) ==
    t.dns_ms + t.tcp_connect_ms + t.tls_handshake_ms + t.server_processing_ms

\* lines 240-246
PhaseSum(t) ==
    t.dns_ms + t.tcp_connect_ms + t.tls_handshake_ms
        + t.server_processing_ms + t.content_transfer_ms

\* the unaccounted time without the clamp at zero
overhead_ms_unclamped(t) == t.total_ms - PhaseSum(t)

\* lines 45-55: the overhead_ms property
overhead_ms(t) ==
    IF t.total_ms - PhaseSum(t) > 0 THEN t.total_ms - PhaseSum(t) ELSE 0

\* lines 265-274: the except clauses, in order
ErrorFor(exc) ==
    CASE exc = "gaierror" -> "DNS resolution failed"
      [] exc = "refused" -> "Connection refused"
      [] exc = "timeout" -> "Connection timed out"
      [] exc = "ssl" -> "TLS error"
      [] OTHER -> "Request failed"

\* the redirect test without the budget
ShouldFollowNoBudget(follow, t, max_redirects) ==
    follow /\ t.status_code \in RedirectCodes

\* the redirect test with an off-by-one budget
ShouldFollowBudgetOffByOne(follow, t, max_redirects) ==
    follow /\ t.status_code \in RedirectCodes /\ max_redirects > 1

\* the redirect test that still follows with a budget of 0
ShouldFollowPastBudget(follow, t, max_redirects) ==
    follow /\ t.status_code \in RedirectCodes /\ max_redirects >= 0

\* line 249
ShouldFollow(follow, t, max_redirects) ==
    follow /\ t.status_code \in RedirectCodes /\ max_redirects > 0

\* folding that forgets the earlier hop's resolution time
FoldNoDns(redirect_timing, timing, url) ==
    [redirect_timing EXCEPT
        !.tcp_connect_ms = @ + timing.tcp_connect_ms,
        !.tls_handshake_ms = @ + timing.tls_handshake_ms,
        !.total_ms = @ + timing.total_ms,
        !.url = url]

\* folding that adds the earlier hop's setup phases to the total a second time
FoldDoubleCount(redirect_timing, timing, url) ==
    [redirect_timing EXCEPT
        !.dns_ms = @ + timing.dns_ms,
        !.tcp_connect_ms = @ + timing.tcp_connect_ms,
        !.tls_handshake_ms = @ + timing.tls_handshake_ms,
        !.total_ms = @ + timing.dns_ms + timing.tcp_connect_ms
                       + timing.tls_handshake_ms + timing.total_ms,
        !.url = url]

\* folding that leaves the earlier hop's handshake out
FoldNoTls(redirect_timing, timing, url) ==
    [redirect_timing EXCEPT
        !.dns_ms = @ + timing.dns_ms,
        !.tcp_connect_ms = @ + timing.tcp_connect_ms,
        !.total_ms = @ + timing.total_ms,
        !.url = url]

\* lines 258-262
Fold(redirect_timing, timing, url) ==
    [redirect_timing EXCEPT
        !.dns_ms = @ + timing.dns_ms,
        !.tcp_connect_ms = @ + timing.tcp_connect_ms,
        !.tls_handshake_ms = @ + timing.tls_handshake_ms,
        !.total_ms = @ + timing.total_ms,
        !.url = url]

(***************************************************************************)
(* trace_request                                                           *)
(***************************************************************************)
\* a fresh invocation: lines 78-86
\* exc and failed_in are history: the exception the call raised or caught
\* itself and the position it was at
NewFrame(url, max_redirects) ==
    [url |-> url, max_redirects |-> max_redirects, pc |-> "parse",
     timing |-> TimingBreakdown(url), sock |-> "None",
     result |-> TimingBreakdown(url),
     exc |-> "None", failed_in |-> "None"]

\* durations a blocking call can still take
Ticks == 0 .. (MaxClock - clock)

Running(p) == sp >= 1 /\ frames[sp].pc = p

SetFrame(f) == frames' = [frames EXCEPT ![sp] = f]

\* a return that leaves the socket as it is
FinallyLeavesSocket(f) == [f EXCEPT !.pc = "returned"]

\* lines 275-282: the finally clause closes the socket if there is one, and
\* the call returns
Finally(f) ==
    [f EXCEPT !.sock = IF @ = "open" THEN "closed" ELSE @, !.pc = "returned"]

\* an except clause that hands back a blank record
FailedDropsMeasurements(f, exc) ==
    Finally([f EXCEPT !.result = [TimingBreakdown(f.url) EXCEPT
                                     !.error = ErrorFor(exc)],
                      !.exc = exc, !.failed_in = f.pc])

\* lines 265-282: an except clause sets timing.error and timing is returned
Failed(f, exc) ==
    Finally([f EXCEPT !.timing.error = ErrorFor(exc),
                      !.result = [f.timing EXCEPT !.error = ErrorFor(exc)],
                      !.exc = exc, !.failed_in = f.pc])

\* what each blocking call raises.  getaddrinfo takes no timeout (line 117);
\* the socket carries `timeout` from line 131 on; ssl.SSLError comes from the
\* calls on a wrapped socket; socket.timeout inside the receive loop is
\* caught there (lines 199-200) and never reaches the except clauses
ResolveErrors == {"gaierror", "other"}

ConnectErrors == {"refused", "timeout", "other"}

HandshakeErrors == {"ssl", "timeout", "other"}

SendErrors(url) == {"timeout", "other"} \cup (IF IsHttps(url) THEN {"ssl"} ELSE {})

FirstByteErrors(url) == {"timeout", "other"} \cup (IF IsHttps(url) THEN {"ssl"} ELSE {})

\* lines 176-200: socket.timeout ends the loop; other errors leave the try
TransferErrors(url) == {"other"} \cup (IF IsHttps(url) THEN {"ssl"} ELSE {})

\* a handshake on every connection
AfterConnectAlwaysTls(url) == "tls"

\* line 137: the handshake is done for https only
AfterConnect(url) == IF IsHttps(url) THEN "tls" ELSE "send"

\* an exception raised inside the try block.  The time a failing call took
\* is never measured, so the clock is left alone.
Raise(exc) ==
    /\ SetFrame(Failed(frames[sp], exc))
    /\ UNCHANGED <<sp, follow_redirects, clock, framerVars, concVars, averVars, reqVars, connVars, cliVars>>

\* lines 97-111: everything before the try block
ParseUrl ==
    /\ Running("parse")
    /\ SetFrame(IF UrlParseRaises(frames[sp].url)
                THEN [frames[sp] EXCEPT !.pc = "raised", !.exc = "other",
                                        !.failed_in = "parse"]
                ELSE [frames[sp] EXCEPT !.pc = "dns"])
    /\ UNCHANGED <<sp, follow_redirects, clock, framerVars, concVars, averVars, reqVars, connVars, cliVars>>

\* lines 116-126: getaddrinfo took d ms
Resolve ==
    /\ Running("dns")
    /\ \/ \E d \in Ticks :
            /\ SetFrame([frames[sp] EXCEPT !.timing.dns_ms = d, !.pc = "tcp"])
            /\ clock' = clock + d
            /\ UNCHANGED <<sp, follow_redirects, framerVars, concVars, averVars, reqVars, connVars, cliVars>>
       \/ \E exc \in ResolveErrors : Raise(exc)

\* lines 129-134: the socket is created, then connect took d ms or raised
Connect ==
    /\ Running("tcp")
    /\ \/ \E d \in Ticks :
            /\ SetFrame([frames[sp] EXCEPT
                   !.timing.tcp_connect_ms = d,
                   !.sock = "open",
                   !.pc = AfterConnect(frames[sp].url)])
            /\ clock' = clock + d
            /\ UNCHANGED <<sp, follow_redirects, framerVars, concVars, averVars, reqVars, connVars, cliVars>>
       \/ \E exc \in ConnectErrors :
            /\ SetFrame(Failed([frames[sp] EXCEPT !.sock = "open"], exc))
            /\ UNCHANGED <<sp, follow_redirects, clock, framerVars, concVars, averVars, reqVars, connVars, cliVars>>

\* lines 137-143
Handshake ==
    /\ Running("tls")
    /\ \/ \E d \in Ticks :
            /\ SetFrame([frames[sp] EXCEPT
                   !.timing.tls_handshake_ms = d,
                   !.timing.tls_version = "TLSv1.3",
                   !.pc = "send"])
            /\ clock' = clock + d
            /\ UNCHANGED <<sp, follow_redirects, framerVars, concVars, averVars, reqVars, connVars, cliVars>>
       \/ \E exc \in HandshakeErrors : Raise(exc)

\* lines 146-157: t_send_start is taken, then sock.sendall returns or raises.
\* The time sendall takes is part of the d of FirstByte, which is measured
\* from t_send_start.
Send ==
    /\ Running("send")
    /\ \/ /\ SetFrame([frames[sp] EXCEPT !.pc = "ttfb"])
          /\ UNCHANGED <<sp, follow_redirects, clock, framerVars, concVars, averVars, reqVars, connVars, cliVars>>
       \/ \E exc \in SendErrors(frames[sp].url) : Raise(exc)

\* lines 160-164: the first recv returned d ms after t_send_start
FirstByte ==
    /\ Running("ttfb")
    /\ \/ \E d \in Ticks :
            /\ SetFrame([frames[sp] EXCEPT
                   !.timing.server_processing_ms = d,
                   !.pc = "transfer"])
            /\ clock' = clock + d
            /\ UNCHANGED <<sp, follow_redirects, framerVars, concVars, averVars, reqVars, connVars, cliVars>>
       \/ \E exc \in FirstByteErrors(frames[sp].url) : Raise(exc)

\* lines 167-203: the receive loop as a whole (SpecFramer models its inside).
\* It ends d ms after t_transfer_start: by a break, an empty read or a recv
\* that ran into the 2 second limit (lines 199-200); any other exception
\* leaves the try block
Transfer ==
    /\ Running("transfer")
    /\ \/ \E d \in Ticks :
            /\ SetFrame([frames[sp] EXCEPT
                   !.timing.content_transfer_ms = d,
                   !.pc = "respparse"])
            /\ clock' = clock + d
            /\ UNCHANGED <<sp, follow_redirects, framerVars, concVars, averVars, reqVars, connVars, cliVars>>
       \/ \E exc \in TransferErrors(frames[sp].url) : Raise(exc)

\* lines 205-246: the response is parsed (a failure in there is swallowed,
\* lines 236-237, and leaves status_code and headers_received unset), then
\* total_ms is set
ParseResponse ==
    /\ Running("respparse")
    /\ \/ \E a \in Answers(frames[sp].url) :
            SetFrame([frames[sp] EXCEPT
                !.timing.status_code = a[1],
                !.timing.location = a[2],
                !.timing.total_ms = PhaseSum(frames[sp].timing),
                !.pc = "redirect"])
       \/ SetFrame([frames[sp] EXCEPT
                !.timing.total_ms = PhaseSum(frames[sp].timing),
                !.pc = "redirect"])
    /\ UNCHANGED <<sp, follow_redirects, clock, framerVars, concVars, averVars, reqVars, connVars, cliVars>>

\* lines 249-256: the recursive call
FollowRedirect ==
    /\ Running("redirect")
    /\ ShouldFollow(follow_redirects, frames[sp].timing, frames[sp].max_redirects)
    /\ HasLocation(frames[sp].timing.location)
    /\ frames' = Append([frames EXCEPT ![sp].pc = "wait"],
                        NewFrame(ResolveLocation(frames[sp].timing.location,
                                                 frames[sp].url),
                                 frames[sp].max_redirects - 1))
    /\ sp' = sp + 1
    /\ UNCHANGED <<follow_redirects, clock, framerVars, concVars, averVars, reqVars, connVars, cliVars>>

\* lines 249-251 not taken: fall out of the try block, through the finally
\* clause, to line 282
NoRedirect ==
    /\ Running("redirect")
    /\ ~(/\ ShouldFollow(follow_redirects, frames[sp].timing, frames[sp].max_redirects)
         /\ HasLocation(frames[sp].timing.location))
    /\ SetFrame(Finally([frames[sp] EXCEPT !.result = frames[sp].timing]))
    /\ UNCHANGED <<sp, follow_redirects, clock, framerVars, concVars, averVars, reqVars, connVars, cliVars>>

\* lines 257-263 and 275-280: the recursive call returned redirect_timing,
\* which is folded and returned through the finally clause
FoldReturn ==
    /\ sp > 1
    /\ frames[sp].pc = "returned"
    /\ frames' = [frames EXCEPT
           ![sp - 1] = Finally([frames[sp - 1] EXCEPT
                          !.result = Fold(frames[sp].result, frames[sp - 1].timing,
                                          frames[sp - 1].url)])]
    /\ sp' = sp - 1
    /\ UNCHANGED <<follow_redirects, clock, framerVars, concVars, averVars, reqVars, connVars, cliVars>>

\* line 254 raised (the callee failed before its try block): lines 273-274
CalleeRaised ==
    /\ sp > 1
    /\ frames[sp].pc = "raised"
    /\ frames' = [frames EXCEPT ![sp - 1] = Failed(frames[sp - 1], "other")]
    /\ sp' = sp - 1
    /\ UNCHANGED <<follow_redirects, clock, framerVars, concVars, averVars, reqVars, connVars, cliVars>>

ProbeNext ==
    \/ ParseUrl
    \/ Resolve
    \/ Connect
    \/ Handshake
    \/ Send
    \/ FirstByte
    \/ Transfer
    \/ ParseResponse
    \/ FollowRedirect
    \/ NoRedirect
    \/ FoldReturn
    \/ CalleeRaised

(***************************************************************************)
(* Properties of trace_request (specification Spec)                        *)
(***************************************************************************)
\* the outermost call has returned a record
Returned == sp = 1 /\ frames[1].pc = "returned"

\* number of trace_request invocations so far
Probes == Len(frames)

\* hop i returned a record (it did not fail before its try block)
HopReturned(i) == frames[i].pc = "returned"

RECURSIVE SumHops(_, _, _)
\* the sum of field f of the hops' own measurements, hops i .. j
SumHops(f, i, j) ==
    IF i > j THEN 0 ELSE frames[i].timing[f] + SumHops(f, i + 1, j)

\* C3: no exception escapes trace_request, whatever the url: the outermost
\* call never ends by raising.
C3_NoExceptionEscapes == ~(sp = 1 /\ frames[1].pc = "raised")

\* C4: a probe that completes without error and without following a
\* redirect returns total_ms = dns_ms + tcp_connect_ms + tls_handshake_ms +
\* server_processing_ms + content_transfer_ms.
C4_TotalIsSumOfPhases ==
    \A i \in 1 .. Len(frames) :
        (/\ HopReturned(i)
         /\ i = Len(frames)
         /\ frames[i].result.error = "None")
        => LET r == frames[i].result IN
           r.total_ms = r.dns_ms + r.tcp_connect_ms + r.tls_handshake_ms
                          + r.server_processing_ms + r.content_transfer_ms

C4_Witness ==
    /\ Returned
    /\ Len(frames) = 1
    /\ frames[1].result.error = "None"
    /\ frames[1].result.status_code = 200
    /\ frames[1].result.tls_handshake_ms > 0
    /\ frames[1].result.content_transfer_ms > 0

\* C5: after a chain of h >= 2 hops the returned record has dns_ms,
\* tcp_connect_ms and tls_handshake_ms summed over all hops, total_ms the
\* sum of the hops' totals, server_processing_ms, content_transfer_ms and
\* status_code of the last hop, and the url of the outermost call.  Stated
\* for every call of the chain that has returned, over the hops from it on.
C5_FoldingOverChain ==
    LET h == Len(frames) IN
    (h >= 2 /\ HopReturned(h)) =>
        \A i \in 1 .. h - 1 :
            HopReturned(i) =>
                LET r == frames[i].result IN
                /\ r.dns_ms = SumHops("dns_ms", i, h)
                /\ r.tcp_connect_ms = SumHops("tcp_connect_ms", i, h)
                /\ r.tls_handshake_ms = SumHops("tls_handshake_ms", i, h)
                /\ r.total_ms = SumHops("total_ms", i, h)
                /\ r.server_processing_ms = frames[h].timing.server_processing_ms
                /\ r.content_transfer_ms = frames[h].timing.content_transfer_ms
                /\ r.status_code = frames[h].timing.status_code
                /\ r.url = frames[i].url

C5_Witness ==
    /\ Returned
    /\ Len(frames) = 3
    /\ frames[1].result.error = "None"
    /\ frames[1].result.status_code = 200
    /\ frames[1].timing.dns_ms > 0
    /\ frames[3].timing.tls_handshake_ms > 0
    /\ frames[1].result.url # frames[3].url

\* a chain of exactly two hops that has returned to the caller
TwoHops == Returned /\ Len(frames) = 2 /\ HopReturned(2)

\* C6 as stated: the folded total of a two-hop redirect is the original
\* hop's resolution + connect + handshake + total, plus the final hop's total.
C6_TotalCountsSetupTwice ==
    TwoHops =>
        frames[1].result.total_ms =
            (frames[1].timing.dns_ms + frames[1].timing.tcp_connect_ms
               + frames[1].timing.tls_handshake_ms + frames[1].timing.total_ms)
            + frames[2].timing.total_ms

\* C6 amended: the folded total of a two-hop redirect is the original hop's
\* total plus the final hop's own total; the original hop's resolution,
\* connect and handshake times enter it once, as part of that hop's total.
C6_TwoHopTotal ==
    TwoHops =>
        frames[1].result.total_ms =
            frames[1].timing.total_ms + frames[2].timing.total_ms

C6_Witness ==
    /\ TwoHops
    /\ frames[1].timing.tcp_connect_ms > 0
    /\ frames[2].timing.total_ms > 0
    /\ frames[1].result.error = "None"

\* hop i answered with a redirect status that the code must not follow
NotFollowable(i) ==
    /\ frames[i].timing.status_code \in {301, 302, 303, 307, 308}
    /\ \/ frames[i].max_redirects = 0
       \/ frames[i].timing.location.kind \in {"missing", "empty"}
       \/ ~follow_redirects

\* C7: a hop that answers with a redirect status while the budget is 0, the
\* Location is missing or empty, or follow_redirects is off, is the last
\* probe, and its call returns the record as measured: no error, the
\* redirect status, phases and total untouched.
C7_UnfollowedRedirectReturnedAsIs ==
    \A i \in 1 .. Len(frames) :
        NotFollowable(i) =>
            /\ i = Len(frames)
            /\ frames[i].pc \in {"redirect", "returned"}
            /\ frames[i].pc = "returned" =>
                   /\ frames[i].result = frames[i].timing
                   /\ frames[i].result.error = "None"
                   /\ frames[i].result.total_ms =
                        frames[i].timing.dns_ms + frames[i].timing.tcp_connect_ms
                        + frames[i].timing.tls_handshake_ms
                        + frames[i].timing.server_processing_ms
                        + frames[i].timing.content_transfer_ms

C7_Witness ==
    /\ follow_redirects
    /\ Len(frames) = 2
    /\ HopReturned(2)
    /\ frames[2].max_redirects = 0
    /\ frames[2].timing.status_code = 301
    /\ frames[2].timing.location.kind = "abs"
    /\ frames[2].result.total_ms > 0

\* steps a call at this position still has before it returns
PcRank(p) ==
    CASE p = "parse" -> 11 [] p = "dns" -> 10 [] p = "tcp" -> 9 [] p = "tls" -> 8
      [] p = "send" -> 7 [] p = "ttfb" -> 6 [] p = "transfer" -> 5
      [] p = "respparse" -> 4 [] p = "redirect" -> 3 [] p = "wait" -> 2
      [] OTHER -> 0

RECURSIVE RankFrom(_)
RankFrom(i) == IF i > Len(frames) THEN 0 ELSE PcRank(frames[i].pc) + RankFrom(i + 1)

\* a variant: 12 steps for every call the budget still allows, plus the
\* steps left in the calls made
Rank == 12 * (frames[1].max_redirects + 1 - Len(frames)) + RankFrom(1)

\* every probe was answered by a redirect to the other of the two URLs
PingPong ==
    /\ frames[1].url \in {HttpA, HttpsB}
    /\ \A i \in 1 .. Len(frames) :
          /\ frames[i].timing.status_code \in {301, 302, 303, 307, 308}
          /\ frames[i].timing.location.kind = "abs"
          /\ frames[i].timing.location.url \in {HttpA, HttpsB} \ {frames[i].url}

C8_Step ==
    /\ Probes' <= frames[1].max_redirects + 1
    /\ Rank' >= 0
    /\ Rank' < Rank
    /\ (Returned' /\ follow_redirects /\ PingPong') =>
           /\ Probes' = frames[1].max_redirects + 1
           /\ frames'[1].result.status_code \in {301, 302, 303, 307, 308}
           /\ frames'[1].result.error = "None"

\* C8: one trace_request call makes at most max_redirects + 1 probes and
\* terminates (every step lowers a non-negative variant), cycles included;
\* on a two-URL ping-pong it makes exactly max_redirects + 1 probes and
\* returns a record with a redirect status and no error.
C8_BudgetBoundsProbes == [][C8_Step]_vars

C8_Witness ==
    /\ Returned
    /\ follow_redirects
    /\ PingPong
    /\ Len(frames) = 3
    /\ frames[3].url = frames[1].url
    /\ frames[2].url # frames[1].url

\* the five phase fields, in the order the phases run
PhaseFields ==
    <<"dns_ms", "tcp_connect_ms", "tls_handshake_ms",
      "server_processing_ms", "content_transfer_ms">>

\* the positions inside the five phases
PhasePcs == {"dns", "tcp", "tls", "send", "ttfb", "transfer"}

\* position p lies in the phase measured by PhaseFields[PhaseOf(p)]
\* (sending and awaiting the first byte are measured together)
PhaseOf(p) ==
    CASE p = "dns" -> 1 [] p = "tcp" -> 2 [] p = "tls" -> 3
      [] p \in {"send", "ttfb"} -> 4 [] OTHER -> 5

\* hop i failed inside one of its own phases and its call has returned
FailedInPhase(i) == frames[i].pc = "returned" /\ frames[i].failed_in \in PhasePcs

ErrorKinds ==
    {"DNS resolution failed", "Connection refused", "Connection timed out",
     "TLS error", "Request failed"}

\* C13: every probe that failed has a record carrying exactly one of the
\* five error kinds, the one its cause determines: a resolution failure
\* gives 'DNS resolution failed', a refused connect 'Connection refused', a
\* timeout of connect, handshake, send or the first receive 'Connection
\* timed out', a secure-channel failure 'TLS error', anything else 'Request
\* failed'; no failure is left without a kind.
C13_OneKindPerCause ==
    \A i \in 1 .. Len(frames) :
        frames[i].exc # "None" =>
            /\ frames[i].pc = "returned"
            /\ frames[i].result.error \in ErrorKinds
            /\ frames[i].exc = "gaierror" <=>
                   frames[i].result.error = "DNS resolution failed"
            /\ frames[i].exc = "refused" <=>
                   frames[i].result.error = "Connection refused"
            /\ (/\ frames[i].exc = "timeout"
                /\ frames[i].failed_in \in {"tcp", "tls", "send", "ttfb"}) <=>
                   frames[i].result.error = "Connection timed out"
            /\ frames[i].exc = "ssl" <=> frames[i].result.error = "TLS error"
            /\ frames[i].exc = "other" <=> frames[i].result.error = "Request failed"

\* the hop whose measurements the chain's returned records are built on: the
\* last hop, or the one before it when the last call raised before measuring
LastMeasuredHop ==
    IF frames[Len(frames)].pc = "raised" THEN Len(frames) - 1 ELSE Len(frames)

\* hop j ran all its phases: it got as far as setting total_ms (line 240)
RanAllPhases(j) == frames[j].failed_in \notin PhasePcs \cup {"parse"}

\* C14: every record trace_request returns has exactly one of two shapes:
\* error is None and the probe it stems from ran all its phases (total_ms
\* set from them), or error is a non-empty string and that probe did not
\* complete; none has completed measurements together with an error.
C14_ExactlyOneShape ==
    \A i \in 1 .. Len(frames) :
        frames[i].pc = "returned" =>
            LET r == frames[i].result
                j == LastMeasuredHop
            IN  r.error = "None" <=> RanAllPhases(j)

\* the positions a call may move to from position p: the phases in the order
\* Resolving, Connecting, Handshaking (https only), Sending,
\* AwaitingFirstByte, Transferring, then the completed probe's redirect
\* handling; "returned" from a phase is the probe failing there
NextPositions(p, url) ==
    CASE p = "parse" -> {"dns", "raised"}
      [] p = "dns" -> {"tcp", "returned"}
      [] p = "tcp" -> (IF url.scheme = "https" THEN {"tls"} ELSE {"send"})
                         \cup {"returned"}
      [] p = "tls" -> {"send", "returned"}
      [] p = "send" -> {"ttfb", "returned"}
      [] p = "ttfb" -> {"transfer", "returned"}
      [] p = "transfer" -> {"respparse", "returned"}
      [] p = "respparse" -> {"redirect"}
      [] p = "redirect" -> {"wait", "returned"}
      [] p = "wait" -> {"returned"}
      [] OTHER -> {}

\* the duration field written at position p, if any
FieldWrittenAt(p) ==
    CASE p = "dns" -> {"dns_ms"}
      [] p = "tcp" -> {"tcp_connect_ms"}
      [] p = "tls" -> {"tls_handshake_ms"}
      [] p = "ttfb" -> {"server_processing_ms"}
      [] p = "transfer" -> {"content_transfer_ms"}
      [] OTHER -> {}

\* one step, seen from probe i
C16_ProbeStep(i) ==
    LET f == frames[i]
        g == frames'[i]
    IN  /\ g.pc # f.pc => g.pc \in NextPositions(f.pc, f.url)
        /\ \A k \in 1 .. 5 :
              g.timing[PhaseFields[k]] # f.timing[PhaseFields[k]]
                  => /\ PhaseFields[k] \in FieldWrittenAt(f.pc)
                     /\ g.pc # "returned"
        /\ f.pc \in {"returned", "raised"} => g = f
        /\ (f.pc \in PhasePcs /\ g.pc = "returned") => g.result.error # "None"

\* only the innermost call is inside a phase, and it can fail there at once
CanFailNow ==
    /\ \A i \in 1 .. Len(frames) : frames[i].pc \in PhasePcs => i = sp
    /\ (sp >= 1 /\ frames[sp].pc \in PhasePcs) =>
          ENABLED (/\ ProbeNext
                   /\ sp' = sp
                   /\ frames'[sp].pc = "returned"
                   /\ frames'[sp].failed_in = frames[sp].pc
                   /\ frames'[sp].result.error # "None")

\* C16: within one probe the phases run strictly in the order Resolving,
\* Connecting, Handshaking (https only), Sending, AwaitingFirstByte,
\* Transferring, Complete: a phase starts only from the one before it, none
\* runs twice, a duration is written only by its own phase, every phase can
\* end in Failed, and a probe that is Complete or Failed runs no further phase.
C16_PhasesInOrder ==
    /\ [][\A i \in 1 .. Len(frames) : C16_ProbeStep(i)]_vars
    /\ []CanFailNow

\* an https probe that went through every phase, the handshake included,
\* and returned without error
C16_Witness ==
    /\ Returned
    /\ Len(frames) = 1
    /\ frames[1].url.scheme = "https"
    /\ frames[1].failed_in = "None"
    /\ frames[1].result.error = "None"
    /\ frames[1].result.tls_version # ""
    /\ frames[1].result.status_code = 200
    /\ frames[1].result.total_ms = clock
    /\ clock > 0

\* C18 as stated: every record returned for a request whose URL scheme is
\* http has tls_handshake_ms = 0 and an empty tls_version, redirect chains
\* included; a single https hop that completes has tls_version set and the
\* measured handshake duration.
C18_HttpRecordHasNoTls ==
    \A i \in 1 .. Len(frames) :
        frames[i].pc = "returned" =>
            /\ frames[i].url.scheme = "http" =>
                  /\ frames[i].result.url = frames[i].url
                  /\ frames[i].result.tls_handshake_ms = 0
                  /\ frames[i].result.tls_version = ""
            /\ (/\ frames[i].url.scheme = "https"
                /\ i = Len(frames)
                /\ frames[i].failed_in = "None") =>
                  /\ frames[i].result.tls_version # ""
                  /\ frames[i].result.tls_handshake_ms = frames[i].timing.tls_handshake_ms

\* C18 amended: a hop probed over http measures tls_handshake_ms = 0 and
\* an empty tls_version, so the record returned for an http URL has both
\* when no redirect was followed; after a redirect chain the returned
\* record (under the original URL) has tls_handshake_ms summed over the
\* hops of the chain and the tls_version of the last hop, so an http
\* request redirected to https returns a handshake time and a version.  A
\* single https hop that completes has tls_version set and the measured
\* handshake duration (the five phases add up to the time that passed).
C18_TlsPerHop ==
    \A i \in 1 .. Len(frames) :
        /\ frames[i].url.scheme = "http" =>
              /\ frames[i].timing.tls_handshake_ms = 0
              /\ frames[i].timing.tls_version = ""
        /\ frames[i].pc = "returned" =>
              /\ frames[i].result.url = frames[i].url
              /\ frames[i].result.tls_handshake_ms =
                    SumHops("tls_handshake_ms", i, Len(frames))
              /\ frames[i].result.tls_version =
                    frames[LastMeasuredHop].timing.tls_version
              /\ (\A j \in i .. Len(frames) : frames[j].url.scheme = "http") =>
                    /\ frames[i].result.tls_handshake_ms = 0
                    /\ frames[i].result.tls_version = ""
              /\ (/\ frames[i].url.scheme = "https"
                  /\ Len(frames) = 1
                  /\ frames[i].failed_in = "None") =>
                    /\ frames[i].result.tls_version # ""
                    /\ frames[i].result.tls_handshake_ms =
                          clock - (frames[i].result.dns_ms
                                   + frames[i].result.tcp_connect_ms
                                   + frames[i].result.server_processing_ms
                                   + frames[i].result.content_transfer_ms)

\* an http request redirected twice, through https hops whose handshakes took
\* time, and returned under the http URL
C18_Witness ==
    /\ Returned
    /\ Len(frames) = 3
    /\ frames[1].url.scheme = "http"
    /\ frames[1].result.url = frames[1].url
    /\ frames[2].timing.tls_handshake_ms > 0
    /\ frames[3].timing.tls_handshake_ms > 0
    /\ frames[1].result.tls_handshake_ms = 2
    /\ frames[1].result.tls_version = "TLSv1.3"
    /\ frames[1].result.error = "None"

\* C19: a hop started by a relative Location (one starting with "/") is
\* probed on the scheme, host and port of the hop that issued the redirect,
\* with the Location as its path; a hop started by an absolute Location is
\* probed on the URL the header gives.
C19_RelativeLocationKeepsOrigin ==
    \A i \in 1 .. (Len(frames) - 1) :
        /\ frames[i].timing.location.kind = "rel" =>
              /\ frames[i + 1].url.scheme = frames[i].url.scheme
              /\ frames[i + 1].url.host = frames[i].url.host
              /\ PortOf(frames[i + 1].url) = PortOf(frames[i].url)
              /\ frames[i + 1].url.path = frames[i].timing.location.path
        /\ frames[i].timing.location.kind = "abs" =>
              frames[i + 1].url = frames[i].timing.location.url

\* the sum of the five phase fields of record r
Accounted(r) ==
    r.dns_ms + r.tcp_connect_ms + r.tls_handshake_ms
        + r.server_processing_ms + r.content_transfer_ms

RECURSIVE LaterPhasesOfHops(_, _)
\* server_processing_ms + content_transfer_ms measured by hops i .. j
LaterPhasesOfHops(i, j) ==
    IF i > j THEN 0
    ELSE frames[i].timing.server_processing_ms
           + frames[i].timing.content_transfer_ms + LaterPhasesOfHops(i + 1, j)

\* C23: every record has overhead_ms = max(0, total_ms - sum of the five
\* phase fields), never negative; a record returned without error has
\* total_ms >= that sum, with equality when the call followed no redirect
\* and otherwise a difference equal to server_processing_ms +
\* content_transfer_ms summed over the earlier hops.
C23_OverheadAndTotal ==
    \A i \in 1 .. Len(frames) :
        /\ \A t \in {frames[i].timing, frames[i].result} :
              /\ overhead_ms(t) >= 0
              /\ overhead_ms(t) =
                    (IF t.total_ms >= Accounted(t)
                     THEN t.total_ms - Accounted(t) ELSE 0)
        /\ (frames[i].pc = "returned" /\ frames[i].result.error = "None") =>
              LET r == frames[i].result IN
              /\ r.total_ms >= Accounted(r)
              /\ i = Len(frames) => r.total_ms = Accounted(r)
              /\ r.total_ms - Accounted(r) = LaterPhasesOfHops(i, Len(frames) - 1)

\* a folded record whose total exceeds the sum of its phase fields
C23_Witness ==
    /\ Returned
    /\ Len(frames) = 2
    /\ frames[1].result.error = "None"
    /\ frames[1].timing.server_processing_ms > 0
    /\ overhead_ms(frames[1].result) = frames[1].timing.server_processing_ms
                                         + frames[1].timing.content_transfer_ms
    /\ frames[1].result.total_ms > Accounted(frames[1].result)

\* C25: when a trace_request call has ended, the socket it opened is closed,
\* on every path: a call that got as far as creating its socket (it failed
\* in the connect, the handshake or later, or completed, or returned through
\* the redirect branch) has closed it, and a call that ended before
\* (URL parsing, resolution) opened none.
C25_SocketsClosedOnReturn ==
    \A i \in 1 .. Len(frames) :
        frames[i].pc \in {"returned", "raised"} =>
            /\ frames[i].sock # "open"
            /\ frames[i].sock = "closed" <=> frames[i].failed_in \notin {"parse", "dns"}

\* a chain whose second hop failed in the TLS handshake has returned through
\* the redirect branch of the first: both sockets are closed
C25_Witness ==
    /\ Returned
    /\ Len(frames) = 2
    /\ frames[2].failed_in = "tls"
    /\ frames[2].exc = "ssl"
    /\ frames[1].failed_in = "None"
    /\ frames[1].sock = "closed"
    /\ frames[2].sock = "closed"

LastHopFailed ==
    LET h == Len(frames) IN
    \/ frames[h].pc = "raised"
    \/ frames[h].pc = "returned" /\ frames[h].result.error # "None"

\* C28: when a later hop of a redirect chain has failed, every earlier call
\* returns the failed hop's record folded like a successful one: the failed
\* hop's error, its own (originally requested) url, dns_ms, tcp_connect_ms
\* and tls_handshake_ms summed over the hops including what the failed hop
\* measured, total_ms the sum of the earlier hops' totals only, and the
\* failed hop's status code (0) in place of the redirect status.
C28_FailedHopIsFolded ==
    LET h == Len(frames) IN
    (h >= 2 /\ LastHopFailed) =>
        \A i \in 1 .. h - 1 :
            frames[i].pc = "returned" =>
                LET r == frames[i].result IN
                /\ frames[h].pc = "returned"
                /\ r.error = frames[h].result.error
                /\ r.url = frames[i].url
                /\ r.dns_ms = SumHops("dns_ms", i, h)
                /\ r.tcp_connect_ms = SumHops("tcp_connect_ms", i, h)
                /\ r.tls_handshake_ms = SumHops("tls_handshake_ms", i, h)
                /\ r.total_ms = SumHops("total_ms", i, h - 1)
                /\ r.status_code = 0
                /\ r.status_code \notin RedirectCodes

(***************************************************************************)
(* The request of trace_request (lines 105-111 and 146-154).               *)
(*                                                                         *)
(* A dict is the list of its <<key, value>> items in insertion order; a    *)
(* string is the list of its characters.                                   *)
(***************************************************************************)
\* the decimal digits
Digits == <<"0", "1", "2", "3", "4", "5", "6", "7", "8", "9">>

\* line 109
DefaultHeaders(host) ==
    << <<"Host", <<host>>>>, <<"User-Agent", <<"TracePulse/1.0">>>>,
       <<"Accept", <<"*/*">>>> >>

\* d[k] = v: an existing key keeps its place, a new key goes last
DictSet(d, k, v) ==
    IF \E i \in 1 .. Len(d) : d[i][1] = k
    THEN [i \in 1 .. Len(d) |-> IF d[i][1] = k THEN <<k, v>> ELSE d[i]]
    ELSE Append(d, <<k, v>>)

RECURSIVE DictUpdate(_, _)
\* d.update(e)
DictUpdate(d, e) ==
    IF e = <<>> THEN d
    ELSE DictUpdate(DictSet(d, Head(e)[1], Head(e)[2]), Tail(e))

\* the characters of the bodies explored: one that UTF-8 encodes in one
\* byte and one that it encodes in two
BodyChars == {"x", "U+00E9"}

\* bytes of the UTF-8 encoding of character c
Utf8Width(c) == IF c = "x" THEN 1 ELSE 2

RECURSIVE EncodedLen(_)
\* line 150: len(body.encode())
EncodedLen(b) == IF b = <<>> THEN 0 ELSE Utf8Width(Head(b)) + EncodedLen(Tail(b))

RECURSIVE DecimalOf(_)
\* line 150: the number formatted by the f-string
DecimalOf(n) ==
    IF n < 10 THEN <<Digits[n + 1]>>
    ELSE Append(DecimalOf(n \div 10), Digits[(n % 10) + 1])

\* lines 109-111: the defaults, updated by the caller's headers if there are any
RequestHeaders(host, hs) ==
    IF hs # <<>> THEN DictUpdate(DefaultHeaders(host), hs) ELSE DefaultHeaders(host)

\* lines 147-150: one line per item of request_headers, then Content-Length
\* if there is a body
HeaderLines(host, hs, b) ==
    IF b # <<>>
    THEN Append(RequestHeaders(host, hs), <<"Content-Length", DecimalOf(EncodedLen(b))>>)
    ELSE RequestHeaders(host, hs)

\* a call that merges the defaults into the caller's mapping
HeadersUpdatedInPlace(hs, host) == DictUpdate(hs, DefaultHeaders(host))

\* lines 105-111: the caller's mapping after the call.  dict(headers) and
\* request_headers.update(headers) read it and write to copies
HeadersAfterCall(hs, host) == hs

\* the header names a caller supplies
HeaderNames == {"Host", "User-Agent", "Accept", "X-Id", "Content-Length"}

\* the value the caller gives header k
CallerValue(k) == IF k = "Content-Length" THEN <<"9">> ELSE <<"c">>

RECURSIVE HeaderLists(_)
\* the mappings of at most n items (the keys of a dict are distinct)
HeaderLists(n) ==
    IF n = 0 THEN {<<>>}
    ELSE HeaderLists(n - 1)
           \cup {Append(hs[1], <<hs[2], CallerValue(hs[2])>>) :
                    hs \in {hk \in HeaderLists(n - 1) \X HeaderNames :
                               /\ Len(hk[1]) = n - 1
                               /\ \A i \in 1 .. Len(hk[1]) : hk[1][i][1] # hk[2]}}

RECURSIVE Bodies(_)
\* the strings of at most n characters
Bodies(n) ==
    IF n = 0 THEN {<<>>}
    ELSE Bodies(n - 1)
           \cup {Append(b, c) : b \in {t \in Bodies(n - 1) : Len(t) = n - 1},
                                c \in BodyChars}

\* lines 105-111 and 146-154 for a request to host "a"
BuildRequest ==
    /\ rpc = "start"
    /\ raw_request' = HeaderLines(HttpA.host, headers, request_body)
    /\ headers' = HeadersAfterCall(headers, HttpA.host)
    /\ rpc' = "built"
    /\ UNCHANGED <<request_body, probeVars, framerVars, concVars, averVars, connVars, cliVars>>

ReqInit ==
    /\ headers \in HeaderLists(MaxHeaders)
    /\ request_body \in Bodies(MaxBodyChars)
    /\ raw_request = <<>>
    /\ rpc = "start"

ReqNext ==
    \/ BuildRequest

(***************************************************************************)
(* trace_concurrent (lines 325-348)                                        *)
(***************************************************************************)
\* the urls arguments explored: empty, one target, two distinct targets, the
\* same target twice, a list holding a URL whose port is not a number, and
\* such a URL twice
UrlLists ==
    {<<>>, <<HttpA>>, <<HttpA, HttpsB>>, <<HttpA, HttpA>>, <<HttpsB, BadPort>>,
     <<BadPort, BadPort>>}

RECURSIVE TasksOncePerUrl(_, _)
\* a task list that ignores the repetition count
TasksOncePerUrl(us, k) ==
    IF us = <<>> THEN <<>>
    ELSE <<Head(us)>> \o TasksOncePerUrl(Tail(us), k)

\* line 340: tasks = [(url, i) for url in urls for i in range(count_per_url)]
RECURSIVE TasksOf(_, _)
TasksOf(us, k) ==
    IF us = <<>> THEN <<>>
    ELSE [i \in 1 .. k |-> Head(us)] \o TasksOf(Tail(us), k)

Tasks == TasksOf(urls, count_per_url)

\* line 335: results = {url: [] for url in urls}
EmptyResults(us) == [u \in {us[i] : i \in 1 .. Len(us)} |-> <<>>]

\* the error field of the record a worker's probe returns: none, or the
\* message of one of the except clauses (trace_concurrent reads neither)
ReportedErrors == {"None", ErrorFor("refused")}

Unfinished == {i \in 1 .. Len(futures) : futures[i].state \in {"pending", "running"}}

InFlight == {i \in 1 .. Len(futures) : futures[i].state = "running"}

\* line 332: max_workers: int = 5
DefaultMaxWorkers == 5

\* line 342: the threads of ThreadPoolExecutor(max_workers=max_workers)
Workers == 1 .. max_workers

\* the threads that are running a task
BusyWorkers == {futures[i].worker : i \in InFlight}

\* a pool that hands a task to a thread whether or not it is running one
IdleWorkersIgnoringBusy == Workers

\* the threads waiting on the pool's queue (or not yet spawned)
IdleWorkers == Workers \ BusyWorkers

\* the pool's threads are interchangeable: the one that takes the next task
\* is named by the lowest free number
NextWorker == CHOOSE w \in IdleWorkers : \A v \in IdleWorkers : w <= v

\* line 343: executor.submit(_trace_one, url), one task after the other
Submit ==
    /\ cpc = "submit"
    /\ Len(futures) < Len(Tasks)
    /\ futures' = Append(futures,
                         [url |-> Tasks[Len(futures) + 1], task |-> Len(futures) + 1,
                          state |-> "pending", worker |-> 0, error |-> "None"])
    /\ UNCHANGED <<urls, count_per_url, max_workers, results, yielded, cpc, probeVars, framerVars, averVars, reqVars, connVars, cliVars>>

\* line 344: every task is submitted, the calling thread enters as_completed
BeginCollect ==
    /\ cpc = "submit"
    /\ Len(futures) = Len(Tasks)
    /\ cpc' = "collect"
    /\ UNCHANGED <<urls, count_per_url, max_workers, futures, results, yielded, probeVars, framerVars, averVars, reqVars, connVars, cliVars>>

\* a pool thread takes the oldest queued task (the pool's queue is FIFO and
\* the pool never runs more than max_workers threads); worker is the thread
\* running the task, 0 when none is.  The thread calls trace_request with
\* the caller's headers and body (line 338): lines 97-111 run
WorkerStart ==
    /\ \E i \in 1 .. Len(futures) :
         /\ futures[i].state = "pending"
         /\ \A j \in 1 .. i - 1 : futures[j].state # "pending"
         /\ IdleWorkers # {}
         /\ futures' = [futures EXCEPT ![i].state = "running",
                                       ![i].worker = NextWorker]
         /\ headers' = IF UrlParseRaises(futures[i].url) THEN headers
                       ELSE HeadersAfterCall(headers, futures[i].url.host)
    /\ UNCHANGED <<urls, count_per_url, max_workers, results, yielded, cpc, probeVars,
                   framerVars, averVars, request_body, raw_request, rpc, connVars, cliVars>>

\* lines 337-338: _trace_one returns (url, record), or trace_request raised
\* before its try block (lines 97-111) and the future stores the exception
WorkerFinish ==
    /\ \E i \in InFlight :
         \/ /\ UrlParseRaises(futures[i].url)
            /\ futures' = [futures EXCEPT ![i].state = "raised", ![i].worker = 0]
         \/ /\ ~UrlParseRaises(futures[i].url)
            /\ \E e \in ReportedErrors :
                 futures' = [futures EXCEPT ![i].state = "done", ![i].worker = 0,
                                            ![i].error = e]
    /\ UNCHANGED <<urls, count_per_url, max_workers, results, yielded, cpc, probeVars, framerVars, averVars, reqVars, connVars, cliVars>>

\* the key a collected record is appended under: line 346
ResultKey(f) == f.url

\* lines 344-346: as_completed yields a finished future; future.result()
\* returns the pair and the record is appended under its url
Collect ==
    /\ cpc = "collect"
    /\ \E i \in (1 .. Len(futures)) \ yielded :
         /\ futures[i].state = "done"
         /\ results' = [results EXCEPT ![ResultKey(futures[i])] =
                           Append(@, [url |-> futures[i].url, task |-> i,
                                      error |-> futures[i].error])]
         /\ yielded' = yielded \cup {i}
    /\ UNCHANGED <<urls, count_per_url, max_workers, futures, cpc, probeVars, framerVars, averVars, reqVars, connVars, cliVars>>

\* line 345: future.result() re-raises the worker's exception; the with
\* block is left and executor.shutdown(wait=True) waits for the other tasks
CollectRaises ==
    /\ cpc = "collect"
    /\ \E i \in (1 .. Len(futures)) \ yielded :
         /\ futures[i].state = "raised"
         /\ yielded' = yielded \cup {i}
    /\ cpc' = "shutdown"
    /\ UNCHANGED <<urls, count_per_url, max_workers, futures, results, probeVars, framerVars, averVars, reqVars, connVars, cliVars>>

\* the with block ends after the exception: trace_concurrent raises
ShutdownDone ==
    /\ cpc = "shutdown"
    /\ Unfinished = {}
    /\ cpc' = "raised"
    /\ UNCHANGED <<urls, count_per_url, max_workers, futures, results, yielded, probeVars, framerVars, averVars, reqVars, connVars, cliVars>>

\* line 348: as_completed is exhausted, the pool is shut down, return results
Return ==
    /\ cpc = "collect"
    /\ yielded = 1 .. Len(futures)
    /\ cpc' = "returned"
    /\ UNCHANGED <<urls, count_per_url, max_workers, futures, results, yielded, probeVars, framerVars, averVars, reqVars, connVars, cliVars>>

(***************************************************************************)
(* The sockets of a trace_concurrent run (lines 337-343 with lines 130,    *)
(* 248-263 and 275-280 of trace_request).  trace_concurrent calls          *)
(* trace_request with the default follow_redirects and max_redirects.      *)
(***************************************************************************)
\* line 84: follow_redirects: bool = True
DefaultFollowRedirects == TRUE

\* line 85: max_redirects: int = 10
DefaultMaxRedirects == 10

\* a trace_request call that has not created its socket yet
Hop(max_redirects) == [sock |-> "none", pc |-> "run", max_redirects |-> max_redirects]

\* the deepest live call of pool thread w
Top(w) == chains[w][Len(chains[w])]

SetTop(w, hop) == chains' = [chains EXCEPT ![w][Len(chains[w])] = hop]

\* lines 337-338: a pool thread takes a task and calls trace_request
TakeTask ==
    /\ pending > 0
    /\ \E w \in Workers :
         /\ chains[w] = <<>>
         /\ chains' = [chains EXCEPT ![w] = <<Hop(DefaultMaxRedirects)>>]
    /\ pending' = pending - 1
    /\ UNCHANGED <<probeVars, framerVars, concVars, averVars, reqVars, cliVars>>

\* line 130: the call creates its socket
HopConnect ==
    /\ \E w \in Workers :
         /\ chains[w] # <<>>
         /\ Top(w).pc = "run"
         /\ Top(w).sock = "none"
         /\ SetTop(w, [Top(w) EXCEPT !.sock = "open"])
    /\ UNCHANGED <<pending, probeVars, framerVars, concVars, averVars, reqVars, cliVars>>

\* lines 265-282: the call fails, or completes without following a
\* redirect, and returns through the finally clause
HopReturn ==
    /\ \E w \in Workers :
         /\ chains[w] # <<>>
         /\ Top(w).pc = "run"
         /\ SetTop(w, Finally(Top(w)))
    /\ UNCHANGED <<pending, probeVars, framerVars, concVars, averVars, reqVars, cliVars>>

\* lines 249-256: the response is a redirect and the budget is not used up
HopRedirect ==
    /\ \E w \in Workers :
         /\ chains[w] # <<>>
         /\ Top(w).pc = "run"
         /\ Top(w).sock = "open"
         /\ ShouldFollow(DefaultFollowRedirects, [status_code |-> 301],
                         Top(w).max_redirects)
         /\ chains' = [chains EXCEPT ![w] =
                          Append([chains[w] EXCEPT ![Len(chains[w])].pc = "wait"],
                                 Hop(Top(w).max_redirects - 1))]
    /\ UNCHANGED <<pending, probeVars, framerVars, concVars, averVars, reqVars, cliVars>>

\* lines 254-263 and 275-280: the recursive call has ended; its caller
\* folds, closes its own socket in the finally clause and returns
HopUnwind ==
    /\ \E w \in Workers :
         /\ Len(chains[w]) >= 2
         /\ Top(w).pc = "returned"
         /\ chains' = [chains EXCEPT ![w] =
                          [SubSeq(chains[w], 1, Len(chains[w]) - 1) EXCEPT
                              ![Len(chains[w]) - 1] = Finally(chains[w][Len(chains[w]) - 1])]]
    /\ UNCHANGED <<pending, probeVars, framerVars, concVars, averVars, reqVars, cliVars>>

\* line 338: the outermost call has returned and _trace_one ends
TaskDone ==
    /\ \E w \in Workers :
         /\ Len(chains[w]) = 1
         /\ Top(w).pc = "returned"
         /\ chains' = [chains EXCEPT ![w] = <<>>]
    /\ UNCHANGED <<pending, probeVars, framerVars, concVars, averVars, reqVars, cliVars>>

\* a pool of max_workers idle threads and some tasks to run
ConnInit ==
    /\ urls = <<>>
    /\ count_per_url = 0
    /\ max_workers \in 1 .. MaxWorkers
    /\ futures = <<>>
    /\ results = EmptyResults(<<>>)
    /\ yielded = {}
    /\ cpc = "idle"
    /\ pending \in 0 .. MaxCount
    /\ chains = [w \in 1 .. max_workers |-> <<>>]

ConnNext ==
    \/ TakeTask
    \/ HopConnect
    \/ HopReturn
    \/ HopRedirect
    \/ HopUnwind
    \/ TaskDone

(***************************************************************************)
(* average_timing (lines 351-371).                                         *)
(*                                                                         *)
(* The phase fields are floats.  A float is modelled by a natural number   *)
(* of quanta whose binary form has at most MantissaBits significant bits;  *)
(* a sum or a quotient is rounded to the nearest such number, ties to the  *)
(* even significand, as IEEE 754 arithmetic rounds.                        *)
(***************************************************************************)
RECURSIVE Pow2(_)
Pow2(k) == IF k = 0 THEN 1 ELSE 2 * Pow2(k - 1)

RECURSIVE Ulp(_)
\* the distance between neighbouring floats at the magnitude of v
Ulp(v) == IF v < Pow2(MantissaBits) THEN 1 ELSE 2 * Ulp(v \div 2)

\* the float nearest to a / b
RoundRatio(a, b) ==
    LET q == a \div b
        u == Ulp(q)
        lo == (q \div u) * u
        hi == lo + u
    IN  IF 2 * a < (lo + hi) * b THEN lo
        ELSE IF 2 * a > (lo + hi) * b THEN hi
        ELSE IF (lo \div u) % 2 = 0 THEN lo ELSE hi

\* float + float
FAdd(a, b) == RoundRatio(a + b, 1)

\* float / int
FDiv(a, n) == RoundRatio(a, n)

RECURSIVE FSumUpTo(_, _, _)
\* sum(r.f for r in results[:k]): the built-in sum adds from the left,
\* starting at the integer 0
FSumUpTo(f, rs, k) ==
    IF k = 0 THEN 0 ELSE FAdd(FSumUpTo(f, rs, k - 1), rs[k][f])

\* a mean that divides by one less than the number of records
MeanOffByOne(f, rs) == FDiv(FSumUpTo(f, rs, Len(rs)), IF Len(rs) > 1 THEN Len(rs) - 1 ELSE 1)

\* lines 361-366: sum(r.f for r in results) / n
Mean(f, rs) == FDiv(FSumUpTo(f, rs, Len(rs)), Len(rs))

\* TimingBreakdown(): url is the empty string
EmptyUrl == Url("", "", "", "")

\* lines 351-371
average_timing(rs) ==
    IF rs = <<>> THEN TimingBreakdown(EmptyUrl)
    ELSE [TimingBreakdown(rs[1].url) EXCEPT
             !.method = rs[1].method,
             !.status_code = rs[1].status_code,
             !.dns_ms = Mean("dns_ms", rs),
             !.tcp_connect_ms = Mean("tcp_connect_ms", rs),
             !.tls_handshake_ms = Mean("tls_handshake_ms", rs),
             !.server_processing_ms = Mean("server_processing_ms", rs),
             !.content_transfer_ms = Mean("content_transfer_ms", rs),
             !.total_ms = Mean("total_ms", rs),
             !.response_size = rs[Len(rs)].response_size,
             !.ip_address = rs[1].ip_address,
             !.tls_version = rs[1].tls_version]

\* the durations explored: zero and every float of one binade
FloatValues == {0} \cup (Pow2(MantissaBits - 1) .. (Pow2(MantissaBits) - 1))

\* the records explored, as trace_request returns them: a completed http
\* probe, a completed https probe answered by a redirect, and a probe whose
\* connection was refused after its resolution
Samples ==
    {[TimingBreakdown(HttpA) EXCEPT
         !.dns_ms = x, !.server_processing_ms = Pow2(MantissaBits - 1),
         !.total_ms = FAdd(x, Pow2(MantissaBits - 1)),
         !.status_code = 200, !.response_size = 2, !.ip_address = "10.0.0.1"]
        : x \in FloatValues}
    \cup {[TimingBreakdown(HttpsB) EXCEPT
         !.method = "POST", !.dns_ms = x, !.tls_handshake_ms = x,
         !.total_ms = FAdd(x, x),
         !.status_code = 301, !.response_size = 0, !.ip_address = "10.0.0.2",
         !.tls_version = "TLSv1.3"]
        : x \in FloatValues}
    \cup {[TimingBreakdown(HttpA) EXCEPT
         !.dns_ms = Pow2(MantissaBits - 1) + 1, !.ip_address = "10.0.0.1",
         !.error = ErrorFor("refused")]}

RECURSIVE ListsUpTo(_)
\* the lists of at most n records
ListsUpTo(n) ==
    IF n = 0 THEN {<<>>}
    ELSE ListsUpTo(n - 1)
            \cup {Append(l, r) : l \in {m \in ListsUpTo(n - 1) : Len(m) = n - 1},
                                 r \in Samples}

\* lines 351-371: the call of average_timing
Average ==
    /\ apc = "call"
    /\ avg' = average_timing(avg_results)
    /\ apc' = "returned"
    /\ UNCHANGED <<avg_results, probeVars, framerVars, concVars, reqVars, connVars, cliVars>>

AverInit ==
    /\ avg_results \in ListsUpTo(MaxResults)
    /\ avg = TimingBreakdown(EmptyUrl)
    /\ apc = "call"

AverNext ==
    \/ Average

(***************************************************************************)
(* The trace command for a count above 1 (cli.py, lines 183-200) and       *)
(* _render_timing (cli.py, lines 51-112).                                  *)
(***************************************************************************)
RECURSIVE MaxPhaseUpTo(_, _)
\* cli.py line 107: the largest of the first k phases of record t
MaxPhaseUpTo(t, k) ==
    IF k = 0 THEN 0
    ELSE LET m == MaxPhaseUpTo(t, k - 1)
             v == t[PhaseFields[k]]
         IN  IF v > m THEN v ELSE m

\* cli.py line 108: max_phase[1] > total * 0.5
IsBottleneck(t) == 2 * MaxPhaseUpTo(t, Len(PhaseFields)) > t.total_ms

\* cli.py lines 51-112: what the call does.  The percentages of the table
\* (line 95) and _phase_bar (lines 31-36) test total before they divide;
\* the bottleneck line (line 111) divides by total untested.
\* _render_timing is the name in the source.
render_timing(t) ==
    IF t.error # "None" THEN "error"
    ELSE IF ~IsBottleneck(t) THEN "table"
    ELSE IF t.total_ms = 0 THEN "ZeroDivisionError"
    ELSE "bottleneck"

\* cli.py lines 195-197: the next result is rendered
RenderResult ==
    /\ apc = "render"
    /\ Len(rendered) < Len(avg_results)
    /\ rendered' = Append(rendered, render_timing(avg_results[Len(rendered) + 1]))
    /\ apc' = IF rendered'[Len(rendered')] = "ZeroDivisionError" THEN "raised"
              ELSE IF Len(rendered') = Len(avg_results) THEN "call"
              ELSE "render"
    /\ UNCHANGED <<avg_results, avg, probeVars, framerVars, concVars, reqVars, connVars>>

\* cli.py lines 199-200: the average is rendered
RenderAverage ==
    /\ apc = "returned"
    /\ rendered' = Append(rendered, render_timing(avg))
    /\ apc' = IF rendered'[Len(rendered')] = "ZeroDivisionError" THEN "raised"
              ELSE "done"
    /\ UNCHANGED <<avg_results, avg, probeVars, framerVars, concVars, reqVars, connVars>>

\* cli.py lines 183-190: count > 1 probes have been made
TraceInit ==
    /\ avg_results \in {l \in ListsUpTo(MaxResults) : Len(l) > 1}
    /\ avg = TimingBreakdown(EmptyUrl)
    /\ apc = "render"
    /\ rendered = <<>>

TraceNext ==
    \/ RenderResult
    \/ Average
    \/ RenderAverage

(***************************************************************************)
(* The receive loop of trace_request (lines 159-203).                      *)
(*                                                                         *)
(* A response is a sequence of bytes.  Every body byte and every CR and LF *)
(* is one element; in the header section the status line, the text         *)
(* "content-length:" and the text "transfer-encoding: chunked" are one     *)
(* element each ("S", "CL", "TE"), so a read never ends inside them.       *)
(***************************************************************************)
CR == "\r"
LF == "\n"
CRLF == <<CR, LF>>
HeaderEnd == <<CR, LF, CR, LF>>

\* n copies of the body byte "x"
Xs(n) == [i \in 1 .. n |-> "x"]

\* a response declaring content-length n (one digit) followed by `body`
WithContentLength(n, body) ==
    <<"S">> \o CRLF \o <<"CL", Digits[n + 1]>> \o HeaderEnd \o body

\* one chunk: hexadecimal size, CRLF, data, CRLF (sizes below 10)
Chunk(data) == <<Digits[Len(data) + 1]>> \o CRLF \o data \o CRLF

RECURSIVE Chunks(_)
Chunks(datas) ==
    IF datas = <<>> THEN <<"0">> \o HeaderEnd
    ELSE Chunk(Head(datas)) \o Chunks(Tail(datas))

\* a chunked response carrying the chunks `datas` and the terminating chunk
Chunked(datas) == <<"S">> \o CRLF \o <<"TE">> \o HeaderEnd \o Chunks(datas)

\* a response with neither header
Unframed(body) == <<"S">> \o HeaderEnd \o body

\* the chunked bodies explored: no chunk, one chunk, two chunks, and chunks
\* whose data holds CR LF or ends in "0" CR LF
ChunkLists ==
    {<<>>, <<Xs(2)>>, <<Xs(1), Xs(2)>>, <<<<"0", CR, LF>>, Xs(1)>>,
     <<<<"x", CR, LF, "1">>>>}

\* the responses explored
Responses ==
    {WithContentLength(n, Xs(n + e)) : n \in 0 .. MaxBody, e \in 0 .. 1}
        \cup {Chunked(d) : d \in ChunkLists}
        \cup {Unframed(Xs(n)) : n \in 0 .. 1}
        \cup {<<"S">> \o CRLF \o <<"CL", "x">> \o HeaderEnd \o Xs(1)}

\* s[i .. i + Len(pat) - 1] = pat
MatchAt(s, pat, i) ==
    /\ i + Len(pat) - 1 <= Len(s)
    /\ \A k \in 1 .. Len(pat) : s[i + k - 1] = pat[k]

\* bytes.find(pat): the 0-based index of the first match, -1 when there is none
Find(s, pat) ==
    IF \E i \in 1 .. Len(s) : MatchAt(s, pat, i)
    THEN (CHOOSE i \in 1 .. Len(s) :
             /\ MatchAt(s, pat, i)
             /\ \A j \in 1 .. i - 1 : ~MatchAt(s, pat, j)) - 1
    ELSE -1

\* bytes.endswith(pat)
EndsWith(s, pat) == Len(s) >= Len(pat) /\ MatchAt(s, pat, Len(s) - Len(pat) + 1)

RECURSIVE SplitCRLFFrom(_, _, _)
\* str.split("\r\n") of s[i ..], `line` being the current piece so far
SplitCRLFFrom(s, i, line) ==
    IF i > Len(s) THEN <<line>>
    ELSE IF MatchAt(s, CRLF, i) THEN <<line>> \o SplitCRLFFrom(s, i + 2, <<>>)
    ELSE SplitCRLFFrom(s, i + 1, Append(line, s[i]))

SplitCRLF(s) == SplitCRLFFrom(s, 1, <<>>)

IsDigit(c) == \E d \in 1 .. 10 : Digits[d] = c

DigitValue(c) == (CHOOSE d \in 1 .. 10 : Digits[d] = c) - 1

\* int(text) accepts this text (whitespace-stripped): decimal digits only
IsDecimal(t) == t # <<>> /\ \A k \in 1 .. Len(t) : IsDigit(t[k])

RECURSIVE DecimalValue(_)
DecimalValue(t) ==
    IF t = <<>> THEN 0
    ELSE 10 * DecimalValue(SubSeq(t, 1, Len(t) - 1)) + DigitValue(t[Len(t)])

\* line 188: line.startswith("content-length:")
IsContentLength(line) == line # <<>> /\ Head(line) = "CL"

RECURSIVE ScanContentLength(_, _)
\* lines 187-191: the for loop over the header lines.  "break" when a
\* content-length line is satisfied, "error" when int() raises ValueError,
\* "else" when the loop runs to its end
ScanContentLength(lines, body_so_far) ==
    IF lines = <<>> THEN "else"
    ELSE IF IsContentLength(Head(lines))
         THEN IF ~IsDecimal(Tail(Head(lines))) THEN "error"
              ELSE IF body_so_far >= DecimalValue(Tail(Head(lines))) THEN "break"
              ELSE ScanContentLength(Tail(lines), body_so_far)
    ELSE ScanContentLength(Tail(lines), body_so_far)

\* line 194
DeclaresChunked(header) == \E k \in 1 .. Len(header) : header[k] = "TE"

\* lines 182-198, run after every non-empty recv of the loop: "break",
\* "continue" or "error"
AfterRead(data) ==
    LET header_end_pos == Find(data, HeaderEnd) IN
    IF header_end_pos = -1 THEN "continue"
    ELSE LET header == SubSeq(data, 1, header_end_pos)
             body_so_far == Len(data) - header_end_pos - 4
             scan == ScanContentLength(SplitCRLF(header), body_so_far)
         IN  IF scan = "else"
             THEN IF DeclaresChunked(header) /\ EndsWith(data, <<"0">> \o HeaderEnd)
                  THEN "break" ELSE "continue"
             ELSE scan

\* the bytes the peer has not yet delivered
Remaining == Len(stream) - delivered

\* the declared content-length of the buffered bytes is already received
LengthReached(data) ==
    /\ Find(data, HeaderEnd) # -1
    /\ ScanContentLength(SplitCRLF(SubSeq(data, 1, Find(data, HeaderEnd))),
                         Len(data) - Find(data, HeaderEnd) - 4) = "break"

\* lines 160-164: the first recv returns n bytes
FirstRecv ==
    /\ fpc = "first"
    /\ peer = "open"
    /\ \E n \in 1 .. Remaining :
         /\ response_data' = SubSeq(stream, 1, n)
         /\ delivered' = n
    /\ fpc' = "loop"
    /\ UNCHANGED <<stream, peer, late_read, response_size, probeVars, concVars, averVars, reqVars, connVars, cliVars>>

\* line 161 raises socket.timeout: nothing arrived within `timeout`
FirstRecvTimeout ==
    /\ fpc = "first"
    /\ peer = "open"
    /\ peer' = "stalled"
    /\ fpc' = "failed"
    /\ UNCHANGED <<stream, delivered, response_data, late_read, response_size, probeVars, concVars, averVars, reqVars, connVars, cliVars>>

\* lines 176-198: recv returns n more bytes and the buffer is examined
LoopRecv ==
    /\ fpc = "loop"
    /\ peer = "open"
    /\ \E n \in 1 .. Remaining :
         LET data == response_data \o SubSeq(stream, delivered + 1, delivered + n)
         IN  /\ response_data' = data
             /\ delivered' = delivered + n
             /\ fpc' = CASE AfterRead(data) = "break" -> "done"
                         [] AfterRead(data) = "error" -> "failed"
                         [] OTHER -> "loop"
    /\ late_read' = (late_read \/ LengthReached(response_data))
    /\ UNCHANGED <<stream, peer, response_size, probeVars, concVars, averVars, reqVars, connVars, cliVars>>

\* lines 199-200: no byte for 2 seconds, the loop ends
LoopRecvTimeout ==
    /\ fpc = "loop"
    /\ peer = "open"
    /\ peer' = IF Remaining > 0 THEN "stalled" ELSE peer
    /\ late_read' = (late_read \/ LengthReached(response_data))
    /\ fpc' = "done"
    /\ UNCHANGED <<stream, delivered, response_data, response_size, probeVars, concVars, averVars, reqVars, connVars, cliVars>>

\* lines 177-178: recv returns b"", the peer closed the connection
LoopRecvClosed ==
    /\ fpc = "loop"
    /\ peer = "open"
    /\ peer' = IF Remaining > 0 THEN "cut" ELSE "closed"
    /\ late_read' = (late_read \/ LengthReached(response_data))
    /\ fpc' = "done"
    /\ UNCHANGED <<stream, delivered, response_data, response_size, probeVars, concVars, averVars, reqVars, connVars, cliVars>>

\* bytes.strip() removes these from both ends (the whitespace of the model's
\* byte alphabet)
IsSpace(c) == c \in {CR, LF}

RECURSIVE LStrip(_)
LStrip(t) == IF t # <<>> /\ IsSpace(Head(t)) THEN LStrip(Tail(t)) ELSE t

RECURSIVE RStrip(_)
RStrip(t) ==
    IF t # <<>> /\ IsSpace(t[Len(t)]) THEN RStrip(SubSeq(t, 1, Len(t) - 1)) ELSE t

\* line 292: parts[i].strip()
Strip(t) == RStrip(LStrip(t))

\* int(line, 16) accepts this text: hexadecimal digits, after an optional
\* "0x" prefix (of the model's bytes only the decimal digits are hexadecimal)
IsHex(t) ==
    \/ IsDecimal(t)
    \/ Len(t) >= 3 /\ t[1] = "0" /\ t[2] = "x" /\ IsDecimal(SubSeq(t, 3, Len(t)))

RECURSIVE HexDigitsValue(_)
HexDigitsValue(t) ==
    IF t = <<>> THEN 0
    ELSE 16 * HexDigitsValue(SubSeq(t, 1, Len(t) - 1)) + DigitValue(t[Len(t)])

\* line 295: int(line, 16)
HexValue(t) ==
    IF IsDecimal(t) THEN HexDigitsValue(t) ELSE HexDigitsValue(SubSeq(t, 3, Len(t)))

RECURSIVE ChunkedSizeFrom(_, _, _)
\* lines 291-303: the while loop of _parse_chunked_size at index i (1-based)
ChunkedSizeFrom(parts, i, total) ==
    IF i > Len(parts) THEN total
    ELSE LET line == Strip(parts[i]) IN
         IF line # <<>>
         THEN IF IsHex(line)
              THEN IF HexValue(line) = 0 THEN total
                   ELSE ChunkedSizeFrom(parts, i + 2, total + HexValue(line))
              ELSE ChunkedSizeFrom(parts, i + 1, total + Len(parts[i]))
         ELSE ChunkedSizeFrom(parts, i + 1, total)

\* lines 285-306: _parse_chunked_size (nothing inside the outer try raises,
\* so line 305 is never reached)
parse_chunked_size(data) == ChunkedSizeFrom(SplitCRLF(data), 1, 0)

\* lines 219-227: resp_headers.get("transfer-encoding", "").lower() == "chunked"
\* over the header lines after the status line
HeaderSaysChunked(lines) == \E k \in 2 .. Len(lines) : lines[k] = <<"TE">>

\* lines 207-228: timing.response_size for the buffered bytes
ResponseSizeOf(data) ==
    LET header_end == Find(data, HeaderEnd) IN
    IF header_end = -1 THEN 0
    ELSE LET header_section == SubSeq(data, 1, header_end)
             body_section == SubSeq(data, header_end + 5, Len(data))
         IN  IF HeaderSaysChunked(SplitCRLF(header_section))
             THEN parse_chunked_size(body_section)
             ELSE Len(body_section)

\* lines 205-237: the response is parsed once the loop has ended
ParseBody ==
    /\ fpc = "done"
    /\ response_size' = ResponseSizeOf(response_data)
    /\ fpc' = "parsed"
    /\ UNCHANGED <<stream, delivered, response_data, peer, late_read, probeVars, concVars, averVars, reqVars, connVars, cliVars>>

FramerInit ==
    /\ stream \in Responses
    /\ delivered = 0
    /\ response_data = <<>>
    /\ fpc = "first"
    /\ peer = "open"
    /\ late_read = FALSE
    /\ response_size = 0

FramerNext ==
    \/ FirstRecv
    \/ FirstRecvTimeout
    \/ LoopRecv
    \/ LoopRecvTimeout
    \/ LoopRecvClosed
    \/ ParseBody

(***************************************************************************)
(* Properties of the receive loop (specification SpecFramer)               *)
(***************************************************************************)
\* the header section of the response being sent
StreamHeader == SubSeq(stream, 1, Find(stream, HeaderEnd))

\* the response declares a content-length (all of them are well-formed but one)
DeclaresLength ==
    \E k \in 1 .. Len(StreamHeader) - 1 :
        StreamHeader[k] = "CL" /\ IsDigit(StreamHeader[k + 1])

\* the declared content-length
DeclaredLength ==
    DigitValue(StreamHeader[(CHOOSE k \in 1 .. Len(StreamHeader) - 1 :
                                StreamHeader[k] = "CL") + 1])

\* body bytes in the program's buffer
BodyReceived ==
    IF Find(response_data, HeaderEnd) = -1 THEN 0
    ELSE Len(response_data) - Find(response_data, HeaderEnd) - 4

\* C9: with a declared content-length L the transfer phase ends exactly
\* when the received body reaches L: the loop does not end before L body
\* bytes are in, and recv is not called again once they are.  Stated for a
\* peer that sends the whole response without stalling.
C9_EndsExactlyAtContentLength ==
    (DeclaresLength /\ peer \in {"open", "closed"}) =>
        /\ fpc \in {"done", "parsed"} => BodyReceived >= DeclaredLength
        /\ ~late_read

\* C10: with transfer-encoding chunked and no content-length the loop ends
\* only after the zero-length terminating chunk, the last bytes of the
\* response, has been received.  Stated for a peer that sends the whole
\* response without stalling.
C10_EndsOnlyAfterLastChunk ==
    (DeclaresChunked(StreamHeader) /\ ~DeclaresLength /\ peer \in {"open", "closed"}) =>
        (fpc \in {"done", "parsed"} => delivered = Len(stream))

\* the body of the response being sent
StreamBody == SubSeq(stream, Find(stream, HeaderEnd) + 5, Len(stream))

RECURSIVE DeclaredTotalFrom(_, _)
\* the sum of the chunk lengths a chunked body declares, read as the chunked
\* encoding defines it: a size line, that many bytes of data, CR LF, up to
\* the chunk of size 0 (the sizes of the responses explored are one digit)
DeclaredTotalFrom(s, i) ==
    IF i > Len(s) \/ ~IsDigit(s[i]) \/ DigitValue(s[i]) = 0 THEN 0
    ELSE DigitValue(s[i]) + DeclaredTotalFrom(s, i + 3 + DigitValue(s[i]) + 2)

\* C11: for a chunked response that was received whole, response_size is
\* the sum of the declared chunk lengths up to the terminating chunk,
\* whatever the chunk data holds and however the bytes were split into reads.
C11_SizeIsSumOfDeclaredChunks ==
    (/\ fpc = "parsed"
     /\ DeclaresChunked(StreamHeader)
     /\ ~DeclaresLength
     /\ response_data = stream)
    => response_size = DeclaredTotalFrom(StreamBody, 1)

\* C17, for the receive calls of a response that declares its length: a
\* blocking call is bounded by a time limit, and a recv that runs into it
\* while the peer still owes bytes makes the probe fail (with the Timeout
\* kind); the probe does not go on to completion.
C17_ExpiredReceiveFailsProbe ==
    (DeclaresLength /\ peer = "stalled") => fpc = "failed"

\* the response declares neither a content-length nor chunked encoding
Unsignalled == \A k \in 1 .. Len(StreamHeader) : StreamHeader[k] \notin {"CL", "TE"}

\* C24: a response that declares neither content-length nor chunked
\* encoding is complete once the peer has closed or no byte has arrived for
\* 2 seconds: the loop ends only then and ends normally (only a first recv
\* that got nothing fails).  When a content-length or chunked encoding was
\* declared and bytes are still to come, 2 seconds of silence do not end
\* the body as complete.
C24_SilenceEndsOnlyUnframedBody ==
    /\ Unsignalled =>
          /\ fpc \in {"done", "parsed"} => (peer # "open" \/ delivered = Len(stream))
          /\ fpc = "failed" => delivered = 0
    /\ ((DeclaresLength \/ DeclaresChunked(StreamHeader)) /\ peer = "stalled") =>
          fpc \notin {"done", "parsed"}

\* the tasks handed to the pool have all been taken by a thread
AllTaken ==
    /\ Len(futures) = Len(Tasks)
    /\ \A i \in 1 .. Len(futures) : futures[i].state # "pending"

AveragedFields ==
    {"dns_ms", "tcp_connect_ms", "tls_handshake_ms", "server_processing_ms",
     "content_transfer_ms", "total_ms"}

RECURSIVE ExactSum(_, _)
\* the sum of field f over the first k records, in exact arithmetic
ExactSum(f, k) == IF k = 0 THEN 0 ELSE ExactSum(f, k - 1) + avg_results[k][f]

RECURSIVE RunningSum(_, _, _)
\* the sum of field f over the records from the k-th on, added one by one
\* to acc, each addition rounded to a float
RunningSum(f, k, acc) ==
    IF k > Len(avg_results) THEN acc
    ELSE RunningSum(f, k + 1, RoundRatio(acc + avg_results[k][f], 1))

\* the list holds n >= 1 copies of one record
Uniform ==
    /\ avg_results # <<>>
    /\ \A k \in 1 .. Len(avg_results) : avg_results[k] = avg_results[1]

\* what the result takes from single records, and the result for no record
RepresentativeFields ==
    LET n == Len(avg_results) IN
    /\ n = 0 =>
          /\ \A f \in AveragedFields : avg[f] = 0
          /\ avg.status_code = 0
          /\ avg.response_size = 0
    /\ n > 0 =>
          /\ avg.url = avg_results[1].url
          /\ avg.method = avg_results[1].method
          /\ avg.status_code = avg_results[1].status_code
          /\ avg.ip_address = avg_results[1].ip_address
          /\ avg.tls_version = avg_results[1].tls_version
          /\ avg.response_size = avg_results[n].response_size

Distance(a, b) == IF a >= b THEN a - b ELSE b - a

TargetSet == {urls[i] : i \in 1 .. Len(urls)}

\* how often target u occurs in the urls argument
Occurrences(u) == Cardinality({i \in 1 .. Len(urls) : urls[i] = u})

\* C1 as stated: after trace_concurrent returns, the mapping has one key
\* per target and the list under every target of urls has length exactly
\* count_per_url.
C1_ExactlyCountPerTarget ==
    cpc = "returned" =>
        /\ DOMAIN results = TargetSet
        /\ \A i \in 1 .. Len(urls) : Len(results[urls[i]]) = count_per_url

\* C1 amended: after trace_concurrent returns, the mapping has one key per
\* distinct target and the list under a target holds count_per_url records
\* for every occurrence of that target in urls: exactly count_per_url when
\* the targets are pairwise distinct.
C1_CountPerOccurrence ==
    cpc = "returned" =>
        /\ DOMAIN results = TargetSet
        /\ \A u \in TargetSet :
              Len(results[u]) = count_per_url * Occurrences(u)

\* two distinct targets, two repetitions, and the records of the first
\* target collected in the reverse of the submission order
C1_Witness ==
    /\ cpc = "returned"
    /\ urls = <<HttpA, HttpsB>>
    /\ count_per_url = 2
    /\ Len(results[HttpA]) = 2
    /\ Len(results[HttpsB]) = 2
    /\ results[HttpA][1].task = 2
    /\ results[HttpA][2].task = 1

\* the records of task i in the result mapping
RecordsOf(i) ==
    {<<u, k>> \in {<<u, k>> \in TargetSet \X (1 .. Len(Tasks)) :
                      k <= Len(results[u])} :
        results[u][k].task = i}

\* C2: trace_concurrent never raises and never drops a task: once it has
\* ended every submitted task has exactly one record, under its own
\* target's key, and the record of a failed probe carries its error.
C2_OneRecordPerTaskNeverRaises ==
    /\ cpc # "raised"
    /\ cpc = "returned" =>
          \A i \in 1 .. Len(Tasks) :
              /\ Cardinality(RecordsOf(i)) = 1
              /\ \A uk \in RecordsOf(i) :
                    /\ uk[1] = Tasks[i]
                    /\ results[uk[1]][uk[2]].error = futures[i].error

\* a target occurs more than once in urls
HasDuplicates == \E i, j \in 1 .. Len(urls) : i # j /\ urls[i] = urls[j]

\* the positions of the result mapping that hold a record
RecordSlots ==
    {uk \in TargetSet \X (1 .. Len(Tasks)) : uk[2] <= Len(results[uk[1]])}

\* C29: when a target occurs more than once in urls, the run ends by
\* returning a mapping with no result lost: it holds len(urls) x
\* count_per_url records in all, and a target that occurs m times has a
\* single key whose list holds m x count_per_url records.
C29_DuplicatesLoseNothing ==
    (HasDuplicates /\ cpc \in {"returned", "raised"}) =>
        /\ cpc = "returned"
        /\ Cardinality(RecordSlots) = Len(urls) * count_per_url
        /\ \A i \in 1 .. Len(urls) :
              /\ urls[i] \in DOMAIN results
              /\ Len(results[urls[i]]) =
                    count_per_url * Cardinality({j \in 1 .. Len(urls) : urls[j] = urls[i]})

\* one step of a trace_concurrent run: what it may write
C21_Step ==
    /\ headers' = headers
    /\ request_body' = request_body
    /\ \A i \in 1 .. Len(futures) :
          futures'[i] # futures[i] =>
              /\ results' = results
              /\ \A j \in 1 .. Len(futures) : j # i => futures'[j] = futures[j]
    /\ results' # results =>
          /\ cpc = "collect"
          /\ futures' = futures
          /\ \E i \in (1 .. Len(futures)) \ yielded :
                /\ yielded' = yielded \cup {i}
                /\ results'[futures[i].url] =
                      Append(results[futures[i].url],
                             [url |-> futures[i].url, task |-> i,
                              error |-> futures[i].error])
                /\ \A u \in DOMAIN results :
                      u # futures[i].url => results'[u] = results[u]

\* C21: the probes of a trace_concurrent run share no mutable state: no
\* step writes the caller's headers mapping or body, a probe writes no
\* other probe's record and not the result mapping, every append to the
\* result mapping is made by the collecting thread, one at a time, and no
\* append is lost (the mapping holds one record for every future collected).
C21_NoSharedWrites ==
    /\ [][C21_Step]_vars
    /\ [](Cardinality({uk \in (DOMAIN results) \X (1 .. Len(futures)) :
                          uk[2] <= Len(results[uk[1]])})
            = Cardinality({i \in yielded : futures[i].state = "done"}))

\* two probes of the same target are in flight while a record of that
\* target is already in the mapping and the caller's headers are as given
C21_Witness ==
    /\ urls = <<HttpA, HttpA>>
    /\ Cardinality(InFlight) = 2
    /\ cpc = "collect"
    /\ Len(results[HttpA]) = 1
    /\ headers = << <<"X-Id", <<"c">>>> >>
    /\ request_body = <<"x">>

(***************************************************************************)
(* Properties of the request (specification SpecRequest)                   *)
(***************************************************************************)
\* how many header lines of the request carry name k
LinesNamed(k) == Cardinality({i \in 1 .. Len(raw_request) : raw_request[i][1] = k})

RECURSIVE BytesOf(_)
\* the length of the UTF-8 encoding of string t
BytesOf(t) == IF t = <<>> THEN 0 ELSE (IF Head(t) = "x" THEN 1 ELSE 2) + BytesOf(Tail(t))

\* C22: the request carries Host, User-Agent and Accept, with the default
\* value (for User-Agent the tracer identity) unless the caller supplied
\* that header; every caller-supplied header is sent with the caller's
\* value; each header name is sent exactly once; and with a body exactly
\* one Content-Length header is sent, whose value is the byte length of
\* the body.
C22_HeadersSentOnce ==
    rpc = "built" =>
        /\ \A k \in {"Host", "User-Agent", "Accept"} : LinesNamed(k) >= 1
        /\ (\A i \in 1 .. Len(headers) : headers[i][1] # "User-Agent") =>
              \E i \in 1 .. Len(raw_request) :
                  raw_request[i] = <<"User-Agent", <<"TracePulse/1.0">>>>
        /\ \A i \in 1 .. Len(headers) :
              \E j \in 1 .. Len(raw_request) : raw_request[j] = headers[i]
        /\ \A i \in 1 .. Len(raw_request) : LinesNamed(raw_request[i][1]) = 1
        /\ request_body # <<>> =>
              /\ LinesNamed("Content-Length") = 1
              /\ \A i \in 1 .. Len(raw_request) :
                    raw_request[i][1] = "Content-Length" =>
                        raw_request[i][2] = DecimalOf(BytesOf(request_body))

(***************************************************************************)
(* Properties of the pool's sockets (specification SpecConnections)        *)
(***************************************************************************)
\* the open sockets of pool thread w
OpenOf(w) == {j \in 1 .. Len(chains[w]) : chains[w][j].sock = "open"}

\* the open sockets of the whole run
OpenSockets == {wj \in Workers \X (1 .. DefaultMaxRedirects + 2) :
                   wj[2] \in OpenOf(wj[1])}

\* every socket that closes in this step is the deepest open one of its
\* thread, and no call ends with its socket open
ClosesInReverseOrder ==
    \A w \in Workers :
        \A j \in OpenOf(w) :
            (j > Len(chains'[w]) \/ chains'[w][j].sock # "open") =>
                /\ j = Len(chains'[w])
                /\ chains'[w][j].sock = "closed"
                /\ \A k \in OpenOf(w) : k <= j

\* C26: while a redirect chain is followed the connection of every earlier
\* hop stays open until the later hops have ended, connections close in
\* reverse order of opening, one trace_request call holds at most as many
\* connections as it has probed hops, at most max_redirects + 1, and a
\* trace_concurrent run holds at most max_workers x (10 + 1).
C26_ChainHoldsItsSockets ==
    /\ [][ClosesInReverseOrder]_vars
    /\ [](\A w \in Workers :
            /\ \A j \in 1 .. Len(chains[w]) - 1 :
                  chains[w][j].sock = "open" /\ chains[w][j].pc = "wait"
            /\ Cardinality(OpenOf(w)) <= Len(chains[w])
            /\ Len(chains[w]) <= DefaultMaxRedirects + 1)
    /\ [](Cardinality(OpenSockets) <= max_workers * (DefaultMaxRedirects + 1))

\* every pool thread is at the end of a full chain and holds
\* max_redirects + 1 sockets, more than one socket per thread
C26_Witness ==
    /\ max_workers > 1
    /\ Cardinality(OpenSockets) = max_workers * (DefaultMaxRedirects + 1)
    /\ Cardinality(OpenSockets) > max_workers

(***************************************************************************)
(* Properties of the trace command (specification SpecTrace)               *)
(***************************************************************************)
\* the record the i-th call of _render_timing was given
RenderedRecord(i) == IF i <= Len(avg_results) THEN avg_results[i] ELSE avg

\* C30: rendering never divides by zero: for each result and for the
\* average of the run, the bottleneck percentage is computed only when
\* total_ms > 0, and a phase is flagged only when it exceeds half of
\* total_ms.
C30_RenderNeverDividesByZero ==
    \A i \in 1 .. Len(rendered) :
        /\ rendered[i] # "ZeroDivisionError"
        /\ rendered[i] = "bottleneck" =>
              /\ RenderedRecord(i).total_ms > 0
              /\ IsBottleneck(RenderedRecord(i))

FramerIdle ==
    /\ stream = <<>>
    /\ delivered = 0
    /\ response_data = <<>>
    /\ fpc = "idle"
    /\ peer = "open"
    /\ late_read = FALSE
    /\ response_size = 0

ConcIdle ==
    /\ urls = <<>>
    /\ count_per_url = 0
    /\ max_workers = 1
    /\ futures = <<>>
    /\ results = EmptyResults(<<>>)
    /\ yielded = {}
    /\ cpc = "idle"

AverIdle ==
    /\ avg_results = <<>>
    /\ avg = TimingBreakdown(EmptyUrl)
    /\ apc = "idle"

ReqIdle ==
    /\ headers = <<>>
    /\ request_body = <<>>
    /\ raw_request = <<>>
    /\ rpc = "idle"

ConnIdle ==
    /\ pending = 0
    /\ chains = <<>>

CliIdle == rendered = <<>>

ProbeIdle ==
    /\ frames = <<>>
    /\ sp = 0
    /\ follow_redirects = TRUE
    /\ clock = 0

ConcInit ==
    /\ urls \in UrlLists
    /\ count_per_url \in 0 .. MaxCount
    /\ max_workers \in (1 .. MaxWorkers) \cup {DefaultMaxWorkers}
    /\ futures = <<>>
    /\ results = EmptyResults(urls)
    /\ yielded = {}
    /\ cpc = "submit"

ConcNext ==
    \/ Submit
    \/ BeginCollect
    \/ WorkerStart
    \/ WorkerFinish
    \/ Collect
    \/ CollectRaises
    \/ ShutdownDone
    \/ Return

\* the headers and body arguments of a trace_concurrent call
ConcReqInit ==
    /\ headers = << <<"X-Id", CallerValue("X-Id")>> >>
    /\ request_body = <<"x">>
    /\ raw_request = <<>>
    /\ rpc = "idle"

ConcurrentInit == ProbeIdle /\ FramerIdle /\ ConcInit /\ AverIdle /\ ConcReqInit /\ ConnIdle /\ CliIdle

ProbeInit ==
    /\ \E u \in Targets, b \in 0 .. MaxRedirects : frames = <<NewFrame(u, b)>>
    /\ sp = 1
    /\ follow_redirects \in BOOLEAN
    /\ clock = 0

Init == ProbeInit /\ FramerIdle /\ ConcIdle /\ AverIdle /\ ReqIdle /\ ConnIdle /\ CliIdle

Next == ProbeNext

Spec == Init /\ [][Next]_vars

FramerSpecInit == ProbeIdle /\ FramerInit /\ ConcIdle /\ AverIdle /\ ReqIdle /\ ConnIdle /\ CliIdle

SpecFramer == FramerSpecInit /\ [][FramerNext]_vars

SpecConcurrent == ConcurrentInit /\ [][ConcNext]_vars

\* the calling thread keeps submitting, an idle pool thread takes a queued
\* task, and a probe whose every socket call is bounded by its timeout ends
SpecConcurrentFair ==
    /\ ConcurrentInit
    /\ [][ConcNext]_vars
    /\ WF_vars(Submit)
    /\ WF_vars(WorkerStart)
    /\ WF_vars(WorkerFinish)

AverageInit == ProbeIdle /\ FramerIdle /\ ConcIdle /\ AverInit /\ ReqIdle /\ ConnIdle /\ CliIdle

SpecAverage == AverageInit /\ [][AverNext]_vars

RequestInit == ProbeIdle /\ FramerIdle /\ ConcIdle /\ AverIdle /\ ReqInit /\ ConnIdle /\ CliIdle

SpecRequest == RequestInit /\ [][ReqNext]_vars

ConnectionsInit == ProbeIdle /\ FramerIdle /\ AverIdle /\ ReqIdle /\ ConnInit /\ CliIdle

SpecConnections == ConnectionsInit /\ [][ConnNext]_vars

TraceCommandInit == ProbeIdle /\ FramerIdle /\ ConcIdle /\ ReqIdle /\ ConnIdle /\ TraceInit

SpecTrace == TraceCommandInit /\ [][TraceNext]_vars

=============================================================================
